---- MODULE Spec2Model ----
(***************************************************************************)
(* MaTiSSe: the slide body tokenizer and parser (presentation/slide.py),   *)
(* the content theme element (theme/slide/content.py), and the slide and   *)
(* title page objects (presentation/slide.py, presentation/titlepage.py).  *)
(*                                                                         *)
(* Text is a sequence of atoms.  In a slide body an atom is one character  *)
(* of plain markdown or one whole environment ("$box" stands for a box     *)
(* environment from its begin marker to its end marker).  Python lists are *)
(* sequences; Python's 0-based indices are kept 1-based throughout.        *)
(***************************************************************************)
EXTENDS Integers, Sequences, FiniteSets

VARIABLES
  body,        \* SpecTok: raw_body of the slide being tokenized
  tok,         \* SpecTok: the locals of the last raw_body_tokenize call
  parsed,      \* SpecTok: the result of the last raw_body_parse call
  tok_op,      \* SpecTok: the last operation run on the slide
  content,     \* SpecMerge, SpecDims: the Content element of an override theme
  other,       \* SpecMerge: the Content element of the global theme
  headers,     \* SpecDims: the headers of the slide theme, in dict order
  footers,     \* SpecDims: the footers of the slide theme, in dict order
  sidebars,    \* SpecDims: the sidebars of the slide theme, in dict order
  theme_op,    \* SpecMerge, SpecDims: the last operation run on content
  slides_number, \* Spec: the class attribute Slide.slides_number
  slides,      \* Spec: the Slide and Titlepage objects, in construction order
  args,        \* Spec: per object, the caller's metadata map before and after
  position,    \* Spec: the running Position handed to to_html
  ret          \* Spec: the last call, its arguments and what it returned

tok_vars == <<body, tok, parsed, tok_op>>
theme_vars == <<content, other, headers, footers, sidebars, theme_op>>
deck_vars == <<slides_number, slides, args, position, ret>>
vars == <<tok_vars, theme_vars, deck_vars>>

----------------------------------------------------------------------------
(* Bounds *)

MaxBody == 5
MaxElems == 2
MaxSlides == 2
MaxRender == 2

----------------------------------------------------------------------------
(* The environment tokenizers: columns.tokenize, box.tokenize, ...         *)

PlainAtoms == {"a"}

EnvAtom(name) == "$" \o name

BodyAtoms == PlainAtoms \cup {"$columns", "$box", "$figure", "$table", "$note"}

UnknownRun(run) == IF run = <<>> THEN <<>> ELSE << <<"unknown", run>> >>

RECURSIVE tokenize_from(_, _, _, _)
tokenize_from(name, source, i, run) ==
  IF i > Len(source) THEN UnknownRun(run)
  ELSE IF source[i] = EnvAtom(name)
       THEN UnknownRun(run) \o << <<name, <<source[i]>>>> >>
              \o tokenize_from(name, source, i + 1, <<>>)
       ELSE tokenize_from(name, source, i + 1, Append(run, source[i]))

\* <name>.tokenize(source): the source split into the environments of kind
\* name and the 'unknown' spans between them, in source order.
tokenize(name, source) == tokenize_from(name, source, 1, <<>>)

----------------------------------------------------------------------------
(* Slide.subtokenize, Slide.merge_subtokens, Slide.raw_body_tokenize       *)

RECURSIVE subtokenize_loop(_, _, _, _, _)
subtokenize_loop(tokens, name, subtokens_name, tkn, subtokens) ==
  IF tkn > Len(tokens) THEN [tokens |-> tokens, subtokens |-> subtokens]
  ELSE IF tokens[tkn][1] = "unknown"
       THEN LET toks == tokenize(name, tokens[tkn][2]) IN
            IF Len(toks) > 1
            THEN subtokenize_loop([tokens EXCEPT ![tkn] = <<subtokens_name>>],
                                  name, subtokens_name, tkn + 1,
                                  Append(subtokens, <<tkn, toks>>))
            ELSE subtokenize_loop(tokens, name, subtokens_name, tkn + 1, subtokens)
       ELSE subtokenize_loop(tokens, name, subtokens_name, tkn + 1, subtokens)

\* Slide.subtokenize: the list of [index, subtokens], and the master tokens
\* as the call leaves them (it overwrites the sub-tokenized entries).
subtokenize(tokens, name, subtokens_name) ==
  subtokenize_loop(tokens, name, subtokens_name, 1, <<>>)

RECURSIVE merge_subtokens_from(_, _, _, _)
merge_subtokens_from(tokens, subtokens, tkn, s) ==
  IF s > Len(subtokens) THEN tokens
  ELSE IF subtokens[s][1] = tkn THEN tokens \o subtokens[s][2]
       ELSE merge_subtokens_from(tokens, subtokens, tkn, s + 1)

\* Variant of merge_subtokens without the index test: it splices the first
\* recorded list whatever the master index is.
merge_subtokens_first(tokens, subtokens, tkn) ==
  IF subtokens = <<>> THEN tokens ELSE tokens \o subtokens[1][2]

\* Slide.merge_subtokens: tokens extended by the sub-token list recorded for
\* master index tkn (the first such entry; the loop breaks there).
merge_subtokens(tokens, subtokens, tkn) ==
  merge_subtokens_from(tokens, subtokens, tkn, 1)

RECURSIVE tokenize_merge(_, _, _)
tokenize_merge(t, tkn, tokens) ==
  IF tkn > Len(t.c_tokens) THEN tokens
  ELSE LET token == t.c_tokens[tkn] IN
       tokenize_merge(t, tkn + 1,
         IF token[1] = "columns" \/ token[1] = "unknown" THEN Append(tokens, token)
         ELSE IF token[1] = "box tokens" THEN merge_subtokens(tokens, t.b_tokens, tkn)
         ELSE IF token[1] = "figure tokens" THEN merge_subtokens(tokens, t.f_tokens, tkn)
         ELSE IF token[1] = "table tokens" THEN merge_subtokens(tokens, t.t_tokens, tkn)
         ELSE IF token[1] = "note tokens" THEN merge_subtokens(tokens, t.n_tokens, tkn)
         ELSE tokens)

\* Slide.raw_body_tokenize: its locals when it returns; tokens is the result.
raw_body_tokenize(raw_body) ==
  LET c0 == tokenize("columns", raw_body)
      b  == subtokenize(c0,       "box",    "box tokens")
      f  == subtokenize(b.tokens, "figure", "figure tokens")
      t  == subtokenize(f.tokens, "table",  "table tokens")
      n  == subtokenize(t.tokens, "note",   "note tokens")
      loc == [c_tokens |-> n.tokens, b_tokens |-> b.subtokens,
              f_tokens |-> f.subtokens, t_tokens |-> t.subtokens,
              n_tokens |-> n.subtokens]
  IN [c_tokens |-> loc.c_tokens, b_tokens |-> loc.b_tokens,
      f_tokens |-> loc.f_tokens, t_tokens |-> loc.t_tokens,
      n_tokens |-> loc.n_tokens, tokens |-> tokenize_merge(loc, 1, <<>>)]

----------------------------------------------------------------------------
(* Slide.raw_body_parse *)

\* Variant of parse_dispatch without the branch for note tokens.
parse_dispatch_no_note(token) ==
  IF token[1] = "unknown" THEN "md_convert"
  ELSE IF token[1] = "columns" THEN "columns.parse"
  ELSE IF token[1] = "box" THEN "box.parse"
  ELSE IF token[1] = "figure" THEN "figure.parse"
  ELSE IF token[1] = "table" THEN "table.parse"
  ELSE "none"

\* The parser one token is handed to; "none" when no branch takes it.
parse_dispatch(token) ==
  IF token[1] = "unknown" THEN "md_convert"
  ELSE IF token[1] = "columns" THEN "columns.parse"
  ELSE IF token[1] = "box" THEN "box.parse"
  ELSE IF token[1] = "figure" THEN "figure.parse"
  ELSE IF token[1] = "table" THEN "table.parse"
  ELSE IF token[1] = "note" THEN "note.parse"
  ELSE "none"

RECURSIVE parse_tokens(_, _, _)
parse_tokens(tokens, i, parsed_body) ==
  IF i > Len(tokens) THEN parsed_body
  ELSE LET p == parse_dispatch(tokens[i]) IN
       parse_tokens(tokens, i + 1,
         IF p = "none" THEN parsed_body
         ELSE parsed_body \o <<"\n", <<p, tokens[i][2]>>>>)

\* Slide.raw_body_parse: the parsed body, each piece '\n' + parser(text)
\* kept as the newline followed by the pair (parser, text).
raw_body_parse(raw_body) == parse_tokens(raw_body_tokenize(raw_body).tokens, 1, <<>>)

----------------------------------------------------------------------------
(* Python strings are sequences of one-character strings; str, int and     *)
(* str.strip as content.py and slide.py use them.                          *)

Digits == <<"0", "1", "2", "3", "4", "5", "6", "7", "8", "9">>

None == <<"None">>

Truthy(v) == v # None /\ v # <<>>

RECURSIVE py_lstrip(_, _)
py_lstrip(s, ch) == IF s # <<>> /\ Head(s) = ch THEN py_lstrip(Tail(s), ch) ELSE s

RECURSIVE py_rstrip(_, _)
py_rstrip(s, ch) ==
  IF s # <<>> /\ s[Len(s)] = ch THEN py_rstrip(SubSeq(s, 1, Len(s) - 1), ch) ELSE s

\* s.strip(ch)
py_strip(s, ch) == py_rstrip(py_lstrip(s, ch), ch)

DigitVal(c) == CHOOSE d \in 0..9 : Digits[d + 1] = c

RECURSIVE py_int_digits(_, _)
py_int_digits(s, acc) ==
  IF s = <<>> THEN acc ELSE py_int_digits(Tail(s), 10 * acc + DigitVal(Head(s)))

\* int(s) for a decimal literal with an optional sign
py_int(s) ==
  IF Head(s) = "-" THEN 0 - py_int_digits(Tail(s), 0) ELSE py_int_digits(s, 0)

RECURSIVE py_str_nat(_)
py_str_nat(n) ==
  IF n < 10 THEN <<Digits[n + 1]>> ELSE py_str_nat(n \div 10) \o <<Digits[(n % 10) + 1]>>

\* str(n)
py_str(n) == IF n < 0 THEN <<"-">> \o py_str_nat(0 - n) ELSE py_str_nat(n)

----------------------------------------------------------------------------
(* theme/slide/content.py: the Content theme element.  A property is the   *)
(* pair <<value, customized>> (data.data[key] = [value, flag]).            *)

ContentKeys == <<"width", "height", "padding">>

\* Content.__init__ before the source is read: the defaults.
ContentDefaults ==
  [data |-> [width   |-> <<<<"1", "0", "0", "%">>, FALSE>>,
             height  |-> <<<<"1", "0", "0", "%">>, FALSE>>,
             padding |-> <<<<"0">>, FALSE>>],
   padding |-> None]

\* ThemeElement.get(source): each key the source sets becomes [value, True];
\* src maps a key to its value, or to None when the source does not set it.
ThemeElement_get(self, src) ==
  [self EXCEPT !.data =
     [k \in DOMAIN self.data |->
        IF src[k] # None THEN <<src[k], TRUE>> ELSE self.data[k]]]

\* ThemeElement.check_specials: the base class extracts none of the three
\* properties Content declares.
ThemeElement_check_specials(self) == self

\* Content.check_specials
Content_check_specials(self) ==
  LET s == ThemeElement_check_specials(self) IN
  IF s.data.padding[2]
  THEN [s EXCEPT !.padding = s.data.padding[1],
                 !.data.padding = <<<<"0">>, TRUE>>]
  ELSE s

\* Content.__init__(source)
Content_init(src) ==
  IF \E k \in DOMAIN src : src[k] # None
  THEN Content_check_specials(ThemeElement_get(ContentDefaults, src))
  ELSE ContentDefaults

\* ThemeElement.set_from(other): a property that is not customized takes the
\* other element's value and keeps its own flag; a customized one is kept.
ThemeElement_set_from(self, oth) ==
  [self EXCEPT !.data =
     [k \in DOMAIN self.data |->
        IF self.data[k][2] THEN self.data[k] ELSE <<oth.data[k][1], self.data[k][2]>>]]

\* Content.set_from(other)
Content_set_from(self, oth) ==
  LET s1 == ThemeElement_set_from(self, oth)
      s2 == IF s1.padding = <<"0">> /\ Truthy(oth.padding) /\ oth.padding # <<"0">>
            THEN [s1 EXCEPT !.padding = oth.padding,
                            !.data.padding = <<<<"0">>, FALSE>>]
            ELSE s1
  IN Content_check_specials(s2)

Percent(elem, key) == py_int(py_strip(elem.data[key][1], "%"))

RECURSIVE SubtractActive(_, _, _)
SubtractActive(elems, key, s) ==
  IF elems = <<>> THEN s
  ELSE SubtractActive(Tail(elems), key,
                      IF Head(elems).active THEN s - Percent(Head(elems), key) ELSE s)

\* Variant of adjust_dims that subtracts from the content's current width
\* and height instead of starting at 100.
adjust_dims_in_place(self, hs, fs, ss) ==
  LET s_w == SubtractActive(ss, "width", Percent(self, "width"))
      s_h == SubtractActive(fs, "height",
               SubtractActive(hs, "height", Percent(self, "height")))
  IN [self EXCEPT !.data.width  = <<py_str(s_w) \o <<"%">>, TRUE>>,
                  !.data.height = <<py_str(s_h) \o <<"%">>, TRUE>>]

\* Content.adjust_dims(headers, footers, sidebars)
adjust_dims(self, hs, fs, ss) ==
  LET s_w == SubtractActive(ss, "width", 100)
      s_h == SubtractActive(fs, "height", SubtractActive(hs, "height", 100))
  IN [self EXCEPT !.data.width  = <<py_str(s_w) \o <<"%">>, TRUE>>,
                  !.data.height = <<py_str(s_h) \o <<"%">>, TRUE>>]

----------------------------------------------------------------------------
(* theme/slide/footer.py, and the header and sidebar elements like it.     *)

\* ThemeElement.__init__: the element is active unless its source says no.
ThemeElement_active(src) == src.active # <<"n", "o">>

\* Footer.__init__(number, source): height '0%' unless the source sets it.
Footer_init(number, src) ==
  [number |-> number,
   active |-> ThemeElement_active(src),
   data   |-> [height |-> IF src.height # None THEN <<src.height, TRUE>>
                          ELSE <<(<<"0", "%">>), FALSE>>]]

\* Header.__init__(number, source)
Header_init(number, src) == Footer_init(number, src)

\* Sidebar.__init__(number, source): width '0%' unless the source sets it.
Sidebar_init(number, src) ==
  [number   |-> number,
   active   |-> ThemeElement_active(src),
   position |-> src.position,
   data     |-> [width |-> IF src.width # None THEN <<src.width, TRUE>>
                           ELSE <<(<<"0", "%">>), FALSE>>]]

----------------------------------------------------------------------------
(* CSS text is a sequence of pieces: the string literals of the source,    *)
(* and the characters of each value put between them.                      *)

RECURSIVE Flatten(_)
Flatten(lists) == IF lists = <<>> THEN <<>> ELSE Head(lists) \o Flatten(Tail(lists))

\* Data.get_css(only_custom): one declaration per property, in the order of
\* keys; only the customized ones when only_custom.
RECURSIVE Data_get_css(_, _, _)
Data_get_css(data, keys, only_custom) ==
  IF keys = <<>> THEN <<>>
  ELSE LET k == Head(keys) IN
       (IF only_custom /\ ~data[k][2] THEN <<>>
        ELSE <<"\n  ", k, ": ">> \o data[k][1] \o <<";">>)
       \o Data_get_css(data, Tail(keys), only_custom)

\* Content.get_css(only_custom, as_list=True)[0]
Content_get_css(self, only_custom) ==
  <<"\n", ".slide-content {\n  float: left;">>
    \o Data_get_css(self.data, ContentKeys, only_custom) \o <<"\n}\n">>

\* Footer.get_css(only_custom, as_list=True)[0]
Footer_get_css(self, only_custom) ==
  <<"\n", ".slide-footer_">> \o py_str(self.number)
    \o <<" {\n  clear: both;\n  padding: 0;">>
    \o Data_get_css(self.data, <<"height">>, only_custom) \o <<"\n}\n">>

\* Header.get_css(only_custom, as_list=True)[0]
Header_get_css(self, only_custom) ==
  <<"\n", ".slide-header_">> \o py_str(self.number)
    \o <<" {\n  clear: both;\n  padding: 0;">>
    \o Data_get_css(self.data, <<"height">>, only_custom) \o <<"\n}\n">>

\* Sidebar.get_css(only_custom, as_list=True)[0]
Sidebar_get_css(self, only_custom) ==
  <<"\n", ".slide-sidebar_">> \o py_str(self.number)
    \o <<" {\n  padding: 0;">>
    \o Data_get_css(self.data, <<"width">>, only_custom) \o <<"\n}\n">>

\* theme.slide.get_css(only_custom, as_list=True): the rules of the headers,
\* the footers, the sidebars and the content, one list entry each.
SlideTheme_get_css(st, only_custom) ==
  [i \in 1..Len(st.headers) |-> Header_get_css(st.headers[i], only_custom)]
    \o [i \in 1..Len(st.footers) |-> Footer_get_css(st.footers[i], only_custom)]
    \o [i \in 1..Len(st.sidebars) |-> Sidebar_get_css(st.sidebars[i], only_custom)]
    \o <<Content_get_css(st.content, only_custom)>>

----------------------------------------------------------------------------
(* Theme: the slide part of a theme (theme.slide).                         *)

EmptySlideTheme ==
  [headers |-> <<>>, footers |-> <<>>, sidebars |-> <<>>, content |-> ContentDefaults]

\* None, where a Theme is expected.
NoTheme == [set |-> FALSE, all_custom |-> FALSE, slide |-> EmptySlideTheme]

\* Theme(source=source): the elements the source declares.
Theme_init(src) ==
  [set |-> TRUE, all_custom |-> FALSE,
   slide |->
     [headers  |-> [i \in 1..Len(src.headers)  |-> Header_init(i, src.headers[i])],
      footers  |-> [i \in 1..Len(src.footers)  |-> Footer_init(i, src.footers[i])],
      sidebars |-> [i \in 1..Len(src.sidebars) |-> Sidebar_init(i, src.sidebars[i])],
      content  |-> Content_init(src.content)]]

AllCustom(data) == [k \in DOMAIN data |-> <<data[k][1], TRUE>>]

\* Theme(set_all_custom=True): the default theme, every property customized.
Theme_all_custom ==
  [set |-> TRUE, all_custom |-> TRUE,
   slide |-> [EmptySlideTheme EXCEPT !.content.data = AllCustom(@)]]

ElementsSetFrom(mine, theirs) ==
  [i \in 1..Len(mine) |->
     IF i <= Len(theirs) THEN ThemeElement_set_from(mine[i], theirs[i]) ELSE mine[i]]

\* Theme.set_from(other): element by element.
Theme_set_from(self, oth) ==
  [self EXCEPT
     !.slide.headers  = ElementsSetFrom(@, oth.slide.headers),
     !.slide.footers  = ElementsSetFrom(@, oth.slide.footers),
     !.slide.sidebars = ElementsSetFrom(@, oth.slide.sidebars),
     !.slide.content  = Content_set_from(@, oth.slide.content)]

\* theme.slide.adjust_dims()
SlideTheme_adjust_dims(st) ==
  [st EXCEPT !.content = adjust_dims(@, st.headers, st.footers, st.sidebars)]

----------------------------------------------------------------------------
(* theme/slide/position.py: the running Position of the deck.              *)

PositionInit ==
  [position |-> <<0, 0, 0>>, rotation |-> <<0, 0, 0>>, scale |-> 1, advances |-> 0]

\* Position.set_position(theme, overtheme): the first slide stays at the
\* origin, every later one is one step further along x and one step further
\* turned around z; the scale is the number of sidebars of the effective
\* theme plus one.
set_position(pos, theme, overtheme) ==
  [pos EXCEPT !.position = IF pos.advances = 0 THEN @ ELSE <<@[1] + 1, @[2], @[3]>>,
              !.rotation = IF pos.advances = 0 THEN @ ELSE <<@[1], @[2], @[3] + 1>>,
              !.scale = Len(overtheme.sidebars) + 1,
              !.advances = @ + 1]

----------------------------------------------------------------------------
(* utils/source_editor.py: the override theme block of a slide body, an    *)
(* atom of the body that names its theme source.                           *)

ThemeAtoms == {"---themeA", "---themeB"}

\* seditor.get_overtheme(source): the first override theme block, or None.
get_overtheme(source) ==
  IF \E p \in 1..Len(source) : source[p] \in ThemeAtoms
  THEN <<source[CHOOSE p \in 1..Len(source) :
           /\ source[p] \in ThemeAtoms
           /\ \A q \in 1..(p - 1) : source[q] \notin ThemeAtoms]>>
  ELSE None

\* seditor.strip_overtheme(source)
strip_overtheme(source) == SelectSeq(source, LAMBDA a : a \notin ThemeAtoms)

ThemeSourceA ==
  [headers  |-> <<>>,
   footers  |-> << [height |-> <<"1", "0", "%">>, active |-> None] >>,
   sidebars |-> <<>>,
   content  |-> [width |-> None, height |-> None, padding |-> <<"5", "p", "x">>]]

ThemeSourceB ==
  [headers  |-> << [height |-> <<"2", "5", "%">>, active |-> None],
                   [height |-> None, active |-> <<"n", "o">>] >>,
   footers  |-> << [height |-> None, active |-> None] >>,
   sidebars |-> << [width |-> <<"3", "0", "%">>, active |-> None, position |-> "R"],
                   [width |-> <<"2", "0", "%">>, active |-> None, position |-> "L"],
                   [width |-> <<"1", "0", "%">>, active |-> None, position |-> "R"] >>,
   content  |-> [width |-> <<"8", "0", "%">>, height |-> None, padding |-> None]]

ThemeSourceOf(block) == IF block = <<"---themeA">> THEN ThemeSourceA ELSE ThemeSourceB

\* The deck's global theme.
GlobalTheme ==
  Theme_init([headers  |-> << [height |-> <<"1", "5", "%">>, active |-> None] >>,
              footers  |-> << [height |-> <<"5", "%">>, active |-> None] >>,
              sidebars |-> << [width |-> <<"2", "0", "%">>, active |-> None,
                               position |-> "L"] >>,
              content  |-> [width |-> None, height |-> None,
                            padding |-> <<"9", "p", "x">>]])

----------------------------------------------------------------------------
(* presentation/slide.py: Slide.  An OrderedDict is the sequence of its    *)
(* <<key, value>> items in insertion order.                                *)

od_has(d, key) == \E i \in 1..Len(d) : d[i][1] = key

od_get(d, key) == d[CHOOSE i \in 1..Len(d) : d[i][1] = key][2]

\* d[key] = val: in place when the key is there, appended otherwise.
od_set(d, key, val) ==
  IF od_has(d, key)
  THEN [i \in 1..Len(d) |-> IF d[i][1] = key THEN <<key, val>> ELSE d[i]]
  ELSE Append(d, <<key, val>>)

RECURSIVE od_copy(_, _)
od_copy(d, items) ==
  IF items = <<>> THEN d
  ELSE od_copy(od_set(d, Head(items)[1], Head(items)[2]), Tail(items))

Overview == <<"$", "o", "v", "e", "r", "v", "i", "e", "w">>

\* Slide.__get_overtheme(theme)
Slide_get_overtheme(self, theme) ==
  LET source == get_overtheme(self.raw_body) IN
  IF Truthy(source)
  THEN LET t0 == Theme_init(ThemeSourceOf(source))
           t1 == IF theme.set THEN Theme_set_from(t0, theme) ELSE t0
           t2 == [t1 EXCEPT !.slide = SlideTheme_adjust_dims(@)]
       IN [self EXCEPT !.overtheme = t2, !.raw_body = strip_overtheme(@)]
  ELSE self

\* Variant of Slide_init that keeps a slidetitle or slidenumber the caller's
\* map already has.
Slide_init_setdefault(cnt, raw_body, title, data, theme, local_number) ==
  LET number == cnt + 1
      d0 == IF data # <<>> THEN od_copy(<<>>, data) ELSE <<>>
      d1 == IF od_has(d0, "slidetitle") THEN d0 ELSE od_set(d0, "slidetitle", title)
      d2 == IF od_has(d1, "slidenumber") THEN d1
            ELSE od_set(d1, "slidenumber", py_str(number))
      self == [cls |-> "Slide", raw_body |-> raw_body, number |-> number,
               local_number |-> local_number, title |-> title, data |-> d2,
               overtheme |-> NoTheme, found |-> FALSE, plain |-> FALSE]
  IN [self |-> Slide_get_overtheme(self, theme), slides_number |-> number,
      data |-> data]

\* Variant of Slide_init that reads the counter before incrementing it.
Slide_init_number_first(cnt, raw_body, title, data, theme, local_number) ==
  LET number == cnt
      d0 == IF data # <<>> THEN od_copy(<<>>, data) ELSE <<>>
      d1 == od_set(d0, "slidetitle", title)
      d2 == od_set(d1, "slidenumber", py_str(number))
      self == [cls |-> "Slide", raw_body |-> raw_body, number |-> number,
               local_number |-> local_number, title |-> title, data |-> d2,
               overtheme |-> NoTheme, found |-> FALSE, plain |-> FALSE]
  IN [self |-> Slide_get_overtheme(self, theme), slides_number |-> cnt + 1,
      data |-> data]

\* Slide.__init__(raw_body, title, data, theme, local_number) with the class
\* counter at cnt: the new object, the counter, and the caller's data map as
\* the call leaves it.  data=None and an empty map are both <<>>.
Slide_init(cnt, raw_body, title, data, theme, local_number) ==
  LET number == cnt + 1
      d0 == IF data # <<>> THEN od_copy(<<>>, data) ELSE <<>>
      d1 == od_set(d0, "slidetitle", title)
      d2 == od_set(d1, "slidenumber", py_str(number))
      self == [cls |-> "Slide", raw_body |-> raw_body, number |-> number,
               local_number |-> local_number, title |-> title, data |-> d2,
               overtheme |-> NoTheme, found |-> FALSE, plain |-> FALSE]
  IN [self |-> Slide_get_overtheme(self, theme), slides_number |-> number,
      data |-> data]

\* Variant of Slide_get_css that drops two leading characters of each rule
\* (the newline and the dot of the class selector).
Slide_get_css_drop2(self, only_custom) ==
  LET css == IF self.overtheme.set
             THEN SlideTheme_get_css(self.overtheme.slide, only_custom) ELSE <<>>
  IN IF Len(css) > 0
     THEN Flatten([c \in 1..Len(css) |->
            <<"\n#slide-">> \o py_str(self.number) \o <<" ">> \o Tail(Tail(css[c]))])
     ELSE <<>>

\* Slide.get_css(only_custom)
Slide_get_css(self, only_custom) ==
  LET css == IF self.overtheme.set
             THEN SlideTheme_get_css(self.overtheme.slide, only_custom) ELSE <<>>
  IN IF Len(css) > 0
     THEN Flatten([c \in 1..Len(css) |->
            <<"\n#slide-">> \o py_str(self.number) \o <<" ">> \o Tail(css[c])])
     ELSE <<>>

Attr(name, value) == [kind |-> "attr", name |-> name, value |-> value]

MetaAttr(self, key) ==
  IF od_has(self.data, key) THEN <<Attr(key, od_get(self.data, key))>> ELSE <<>>

\* Slide.put_attributes(doc)
put_attributes(self) ==
  <<Attr("id", <<"slide-">> \o py_str(self.number)), Attr("title", self.title)>>
    \o MetaAttr(self, "sectiontitle") \o MetaAttr(self, "sectionnumber")
    \o MetaAttr(self, "subsectiontitle") \o MetaAttr(self, "subsectionnumber")

\* header.to_html / footer.to_html / sidebar.to_html / content.to_html: one
\* fragment of the document, named by the element's number.
Fragment(kind, number, value) ==
  [kind |-> kind, name |-> "fragment", value |-> py_str(number) \o value]

SidebarFragments(ss, side) ==
  LET sel == SelectSeq(ss, LAMBDA sb : sb.position = side) IN
  [i \in 1..Len(sel) |-> Fragment("sidebar" \o side, sel[i].number, <<>>)]

ElementFragments(self, actual_theme, content_calls) ==
  [i \in 1..Len(actual_theme.headers) |->
     Fragment("header", actual_theme.headers[i].number, <<>>)]
    \o SidebarFragments(actual_theme.sidebars, "L")
    \o [i \in 1..content_calls |->
          Fragment("content", 0, <<"\n">> \o raw_body_parse(self.raw_body))]
    \o SidebarFragments(actual_theme.sidebars, "R")
    \o [i \in 1..Len(actual_theme.footers) |->
          Fragment("footer", actual_theme.footers[i].number, <<>>)]

\* Variant of to_html_doc in which the overview is placed where the running
\* position is, like any other slide.
to_html_doc_overview_at_position(self, pos, actual_theme, content_calls) ==
  put_attributes(self)
    \o (IF self.title # Overview
        THEN << Attr("class", <<"step slide">>),
                Attr("data-x", py_str(pos.position[1])),
                Attr("data-y", py_str(pos.position[2])),
                Attr("data-z", py_str(pos.position[3])),
                Attr("data-scale", py_str(pos.scale)),
                Attr("data-rotate-x", py_str(pos.rotation[1])),
                Attr("data-rotate-y", py_str(pos.rotation[2])),
                Attr("data-rotate-z", py_str(pos.rotation[3])) >>
               \o ElementFragments(self, actual_theme, content_calls)
        ELSE << Attr("class", <<"step overview">>),
                Attr("style", <<>>),
                Attr("data-x", py_str(pos.position[1])),
                Attr("data-y", py_str(pos.position[2])),
                Attr("data-z", py_str(pos.position[3])),
                Attr("data-scale", py_str(pos.scale)) >>)

\* Slide.to_html, lines 257-303: the attributes and fragments put in the
\* document once the position has been advanced.
to_html_doc(self, pos, actual_theme, content_calls) ==
  put_attributes(self)
    \o (IF self.title # Overview
        THEN << Attr("class", <<"step slide">>),
                Attr("data-x", py_str(pos.position[1])),
                Attr("data-y", py_str(pos.position[2])),
                Attr("data-z", py_str(pos.position[3])),
                Attr("data-scale", py_str(pos.scale)),
                Attr("data-rotate-x", py_str(pos.rotation[1])),
                Attr("data-rotate-y", py_str(pos.rotation[2])),
                Attr("data-rotate-z", py_str(pos.rotation[3])) >>
               \o ElementFragments(self, actual_theme, content_calls)
        ELSE << Attr("class", <<"step overview">>),
                Attr("style", <<>>),
                Attr("data-x", <<"0">>),
                Attr("data-y", <<"0">>),
                Attr("data-z", <<"0">>),
                Attr("data-scale", py_str(pos.scale)) >>)

\* Variant of Slide_to_html in which the extra parse of slide 2 is put in
\* the document as a second content fragment.
Slide_to_html_twice(self, running, theme) ==
  LET actual_theme == IF self.overtheme.set THEN self.overtheme.slide ELSE theme
      pos == set_position(running, theme, actual_theme)
  IN [doc |-> to_html_doc(self, pos, actual_theme, IF self.number = 2 THEN 2 ELSE 1),
      position |-> pos]

\* Variant of Slide_to_html in which the overview, pinned at the origin,
\* leaves the running position as it found it.
Slide_to_html_overview_no_advance(self, running, theme) ==
  LET actual_theme == IF self.overtheme.set THEN self.overtheme.slide ELSE theme
      pos == IF self.title = Overview THEN running
             ELSE set_position(running, theme, actual_theme)
  IN [doc |-> to_html_doc(self, pos, actual_theme, 1), position |-> pos]

\* Slide.to_html(position, theme): the document, as its attributes and
\* fragments in the order they are put, and the position as the call leaves
\* it.  The extra raw_body_parse() of slide 2 puts nothing in the document.
Slide_to_html(self, running, theme) ==
  LET actual_theme == IF self.overtheme.set THEN self.overtheme.slide ELSE theme
      pos == set_position(running, theme, actual_theme)
  IN [doc |-> to_html_doc(self, pos, actual_theme, 1), position |-> pos]

----------------------------------------------------------------------------
(* presentation/titlepage.py: Titlepage.  The source is a sequence of      *)
(* atoms: one character of text, or one whole begin or end marker.         *)

BeginAtoms == {"$titlepage", "$titlepage[plain]"}

EndAtom == "$endtitlepage"

Min(a, b) == IF a < b THEN a ELSE b

Max(a, b) == IF a > b THEN a ELSE b

py_index(i, n) == IF i < 0 THEN Max(i + n, 0) ELSE Min(i, n)

\* s[a:b], 0-based, negative indices counted from the end
py_slice(s, a, b) ==
  LET lo == py_index(a, Len(s))
      hi == py_index(b, Len(s))
  IN IF lo < hi THEN SubSeq(s, lo + 1, hi) ELSE <<>>

\* re.search(regex, s): the 0-based start of the first match, -1 if none.
re_search(atoms, s) ==
  IF \E p \in 1..Len(s) : s[p] \in atoms
  THEN (CHOOSE p \in 1..Len(s) :
          s[p] \in atoms /\ \A q \in 1..(p - 1) : s[q] \notin atoms) - 1
  ELSE 0 - 1

\* Titlepage.get(source): the title page and the returned source.
Titlepage_get(self, source) ==
  LET mstart == re_search(BeginAtoms, source) IN
  IF mstart >= 0
  THEN LET mend == mstart + 1
           is_plain == source[mstart + 1] = "$titlepage[plain]"
           estart == re_search({EndAtom}, py_slice(source, mend, Len(source)))
           end == IF estart >= 0 THEN estart + mend ELSE 0 - 1
       IN [self |-> [self EXCEPT
                       !.found = TRUE,
                       !.plain = IF is_plain THEN TRUE ELSE @,
                       !.overtheme = IF is_plain THEN Theme_all_custom ELSE @,
                       !.raw_body = py_slice(source, mend, end)],
           source |-> py_slice(source, 0, mstart) \o py_slice(source, end, Len(source))]
  ELSE [self |-> self, source |-> source]

\* Titlepage.__str__
Titlepage_str(self) == IF self.found THEN self.raw_body ELSE <<>>

\* Titlepage.__init__(plain, source) with the class counter at cnt.
Titlepage_init(cnt, plain, source) ==
  LET base == Slide_init(cnt, <<>>, <<"t", "i", "t", "l", "e", "p", "a", "g", "e">>,
                         <<>>, NoTheme, 1)
      self == [base.self EXCEPT !.cls = "Titlepage", !.found = FALSE, !.plain = plain]
  IN [self |-> IF source # <<>> THEN Titlepage_get(self, source).self ELSE self,
      slides_number |-> base.slides_number,
      data |-> <<>>]

----------------------------------------------------------------------------
(* The tokenizer specification: one slide, tokenized and parsed.           *)

NoTok == [c_tokens |-> <<>>, b_tokens |-> <<>>, f_tokens |-> <<>>,
          t_tokens |-> <<>>, n_tokens |-> <<>>, tokens |-> <<>>]

TokIdle == body = <<>> /\ tok = NoTok /\ parsed = <<>> /\ tok_op = "idle"

NoRet == [op |-> "none", idx |-> 0, arg |-> <<>>, value |-> <<>>]

DeckIdle ==
  /\ slides_number = 0 /\ slides = <<>> /\ args = <<>>
  /\ position = PositionInit /\ ret = NoRet

ThemeIdle ==
  /\ content = ContentDefaults /\ other = ContentDefaults
  /\ headers = <<>> /\ footers = <<>> /\ sidebars = <<>>
  /\ theme_op = "idle"

RECURSIVE SeqsUpTo(_, _)
SeqsUpTo(S, n) ==
  IF n = 0 THEN {<<>>}
  ELSE LET prev == SeqsUpTo(S, n - 1) IN
       prev \cup {Append(s, x) : s \in {p \in prev : Len(p) = n - 1}, x \in S}

TokInit ==
  /\ body \in SeqsUpTo(BodyAtoms, MaxBody)
  /\ tok = NoTok
  /\ parsed = <<>>
  /\ tok_op = "new"
  /\ ThemeIdle
  /\ DeckIdle

RawBodyTokenize ==
  /\ tok' = raw_body_tokenize(body)
  /\ tok_op' = "raw_body_tokenize"
  /\ UNCHANGED <<body, parsed, theme_vars, deck_vars>>

RawBodyParse ==
  /\ tok' = raw_body_tokenize(body)
  /\ parsed' = raw_body_parse(body)
  /\ tok_op' = "raw_body_parse"
  /\ UNCHANGED <<body, theme_vars, deck_vars>>

TokNext == RawBodyTokenize \/ RawBodyParse

SpecTok == TokInit /\ [][TokNext]_vars

----------------------------------------------------------------------------
(* The merge specification: an override Content merged from a global one.  *)

NoSource == [width |-> None, height |-> None, padding |-> None]

ContentSources ==
  [width   : {None, <<"8", "0", "%">>},
   height  : {None, <<"5", "0", "%">>},
   padding : {None, <<"0">>, <<"5", "p", "x">>, <<"9", "p", "x">>}]

MergeInit ==
  /\ TokIdle
  /\ DeckIdle
  /\ \E src \in ContentSources : content = Content_init(src)
  /\ \E src \in ContentSources : other = Content_init(src)
  /\ headers = <<>> /\ footers = <<>> /\ sidebars = <<>>
  /\ theme_op = "new"

\* overtheme.set_from(other=theme), on the content element
SetFrom ==
  /\ content' = Content_set_from(content, other)
  /\ theme_op' = "set_from"
  /\ UNCHANGED <<other, headers, footers, sidebars, tok_vars, deck_vars>>

MergeNext == SetFrom

SpecMerge == MergeInit /\ [][MergeNext]_vars

\* C5: customization monotonicity of the content element: a set_from merge
\* changes neither the value nor the flag of a customized property, and a
\* user-set padding stays in Content.padding.
C5_CustomMonotone ==
  [][theme_op' = "set_from" =>
       /\ \A k \in DOMAIN content.data :
            content.data[k][2] => content'.data[k] = content.data[k]
       /\ content.data.padding[2] => content'.padding = content.padding]_vars

----------------------------------------------------------------------------
(* The dimensions specification: a slide theme gains headers, footers and  *)
(* sidebars, and its content element is adjusted to them.                  *)

FooterSources ==
  { [height |-> <<"6", "0", "%">>, active |-> None],
    [height |-> <<"1", "0", "%">>, active |-> <<"n", "o">>],
    [height |-> None,              active |-> None] }

HeaderSources ==
  { [height |-> <<"2", "5", "%">>, active |-> None],
    [height |-> <<"1", "0", "%">>, active |-> <<"n", "o">>] }

SidebarSources ==
  { [width |-> <<"3", "0", "%">>, active |-> None,          position |-> "L"],
    [width |-> <<"8", "0", "%">>, active |-> None,          position |-> "R"],
    [width |-> <<"1", "0", "%">>, active |-> <<"n", "o">>, position |-> "R"] }

DimsInit ==
  /\ TokIdle
  /\ DeckIdle
  /\ \E src \in {NoSource, [width |-> <<"8", "0", "%">>, height |-> <<"5", "0", "%">>,
                            padding |-> None]} : content = Content_init(src)
  /\ other = ContentDefaults
  /\ headers = <<>> /\ footers = <<>> /\ sidebars = <<>>
  /\ theme_op = "new"

\* Theme parse: one more header in the slide theme.
AddHeader ==
  /\ Len(headers) < MaxElems
  /\ \E src \in HeaderSources : headers' = Append(headers, Header_init(Len(headers) + 1, src))
  /\ theme_op' = "add"
  /\ UNCHANGED <<content, other, footers, sidebars, tok_vars, deck_vars>>

\* Theme parse: one more footer in the slide theme.
AddFooter ==
  /\ Len(footers) < MaxElems
  /\ \E src \in FooterSources : footers' = Append(footers, Footer_init(Len(footers) + 1, src))
  /\ theme_op' = "add"
  /\ UNCHANGED <<content, other, headers, sidebars, tok_vars, deck_vars>>

\* Theme parse: one more sidebar in the slide theme.
AddSidebar ==
  /\ Len(sidebars) < MaxElems
  /\ \E src \in SidebarSources : sidebars' = Append(sidebars, Sidebar_init(Len(sidebars) + 1, src))
  /\ theme_op' = "add"
  /\ UNCHANGED <<content, other, headers, footers, tok_vars, deck_vars>>

\* content.adjust_dims(headers, footers, sidebars)
AdjustDims ==
  /\ content' = adjust_dims(content, headers, footers, sidebars)
  /\ theme_op' = "adjust_dims"
  /\ UNCHANGED <<other, headers, footers, sidebars, tok_vars, deck_vars>>

DimsNext == AddHeader \/ AddFooter \/ AddSidebar \/ AdjustDims

SpecDims == DimsInit /\ [][DimsNext]_vars

\* adjust_dims has run on a content whose width and height it had already
\* set, with two active headers, an active and an inactive footer and two
\* active sidebars: the height is 100 - 25 - 25 - 60 = -10.
C6_Witness ==
  /\ theme_op = "adjust_dims"
  /\ Len(headers) = 2 /\ headers[1].active /\ headers[2].active
  /\ \E i, j \in 1..Len(footers) : footers[i].active /\ ~footers[j].active
  /\ Len(sidebars) = 2 /\ sidebars[1].active /\ sidebars[2].active
  /\ content.data.height[1] = <<"-", "1", "0", "%">>

RECURSIVE SumActive(_, _)
SumActive(elems, key) ==
  IF elems = <<>> THEN 0
  ELSE (IF Head(elems).active THEN Percent(Head(elems), key) ELSE 0)
         + SumActive(Tail(elems), key)

\* C6: right after adjust_dims the content width is 100 minus the widths of
\* the active sidebars and its height 100 minus the heights of the active
\* headers and footers, whatever they were before; a second call with the
\* same elements changes nothing.
C6_AdjustDims ==
  /\ [](theme_op = "adjust_dims" =>
         /\ content.data.width =
              <<py_str(100 - SumActive(sidebars, "width")) \o <<"%">>, TRUE>>
         /\ content.data.height =
              <<py_str(100 - SumActive(headers, "height") - SumActive(footers, "height"))
                  \o <<"%">>, TRUE>>)
  /\ [][(theme_op = "adjust_dims" /\ theme_op' = "adjust_dims") =>
          content' = content]_vars

----------------------------------------------------------------------------
(* The deck specification: slides and title pages are constructed, then    *)
(* asked for their css, parsed and rendered.                               *)

MetaA == << <<"sectiontitle", <<"S">>>>, <<"slidenumber", <<"9", "9">>>>,
            <<"sectionnumber", <<"1">>>> >>

MetaB == << <<"slidetitle", <<"Z">>>>, <<"author", <<"X">>>> >>

SlideInputs ==
  { [raw_body |-> <<"a">>, title |-> <<"A">>, data |-> <<>>,
     theme |-> NoTheme, local_number |-> 1],
    [raw_body |-> <<"---themeA", "a", "$box">>, title |-> <<"A">>, data |-> MetaA,
     theme |-> GlobalTheme, local_number |-> 1],
    [raw_body |-> <<"$note", "a", "---themeB">>, title |-> <<"B">>, data |-> MetaB,
     theme |-> NoTheme, local_number |-> 2],
    [raw_body |-> <<"a", "$columns">>, title |-> Overview, data |-> <<>>,
     theme |-> GlobalTheme, local_number |-> 1] }

TitleSources ==
  { <<"x", "y">>,
    <<"x", "$titlepage", "t", "$endtitlepage", "y">>,
    <<"$titlepage[plain]", "t", "u">> }

TitleInputs ==
  { [plain |-> FALSE, source |-> <<>>],
    [plain |-> FALSE, source |-> <<"x", "$titlepage", "t", "$endtitlepage", "y">>],
    [plain |-> TRUE,  source |-> <<"$titlepage", "t">>] }

Init ==
  /\ TokIdle
  /\ ThemeIdle
  /\ DeckIdle

\* Slide(raw_body, title, data, theme, local_number)
NewSlide ==
  /\ Len(slides) < MaxSlides
  /\ \E in \in SlideInputs :
       LET r == Slide_init(slides_number, in.raw_body, in.title, in.data, in.theme,
                           in.local_number)
       IN /\ slides' = Append(slides, r.self)
          /\ slides_number' = r.slides_number
          /\ args' = Append(args, [data |-> in.data, data_after |-> r.data,
                                   title |-> in.title])
  /\ ret' = [NoRet EXCEPT !.op = "Slide", !.idx = Len(slides) + 1]
  /\ UNCHANGED <<position, tok_vars, theme_vars>>

\* Titlepage(plain, source)
NewTitlepage ==
  /\ Len(slides) < MaxSlides
  /\ \E in \in TitleInputs :
       LET r == Titlepage_init(slides_number, in.plain, in.source)
       IN /\ slides' = Append(slides, r.self)
          /\ slides_number' = r.slides_number
          /\ args' = Append(args, [data |-> <<>>, data_after |-> r.data,
                                   title |-> <<"t", "i", "t", "l", "e", "p", "a", "g", "e">>])
  /\ ret' = [NoRet EXCEPT !.op = "Titlepage", !.idx = Len(slides) + 1]
  /\ UNCHANGED <<position, tok_vars, theme_vars>>

\* slide.get_css(only_custom)
GetCss ==
  /\ \E i \in 1..Len(slides), only_custom \in BOOLEAN :
       ret' = [op |-> "get_css", idx |-> i,
               arg |-> IF only_custom THEN <<"True">> ELSE <<"False">>,
               value |-> Slide_get_css(slides[i], only_custom)]
  /\ UNCHANGED <<slides_number, slides, args, position, tok_vars, theme_vars>>

\* slide.raw_body_parse()
SlideRawBodyParse ==
  /\ \E i \in 1..Len(slides) :
       ret' = [op |-> "raw_body_parse", idx |-> i, arg |-> <<>>,
               value |-> raw_body_parse(slides[i].raw_body)]
  /\ UNCHANGED <<slides_number, slides, args, position, tok_vars, theme_vars>>

\* slide.to_html(position, theme), with the deck's global slide theme
ToHtml ==
  /\ position.advances < MaxRender
  /\ \E i \in 1..Len(slides) :
       LET r == Slide_to_html(slides[i], position, GlobalTheme.slide)
       IN /\ ret' = [op |-> "to_html", idx |-> i, arg |-> <<>>, value |-> r.doc]
          /\ position' = r.position
  /\ UNCHANGED <<slides_number, slides, args, tok_vars, theme_vars>>

\* titlepage.get(source)
TitlepageGet ==
  /\ \E i \in 1..Len(slides), source \in TitleSources :
       /\ slides[i].cls = "Titlepage"
       /\ LET r == Titlepage_get(slides[i], source)
          IN /\ slides' = [slides EXCEPT ![i] = r.self]
             /\ ret' = [op |-> "get", idx |-> i, arg |-> source, value |-> r.source]
  /\ UNCHANGED <<slides_number, args, position, tok_vars, theme_vars>>

\* str(titlepage)
TitlepageStr ==
  /\ \E i \in 1..Len(slides) :
       /\ slides[i].cls = "Titlepage"
       /\ ret' = [op |-> "str", idx |-> i, arg |-> <<>>,
                  value |-> Titlepage_str(slides[i])]
  /\ UNCHANGED <<slides_number, slides, args, position, tok_vars, theme_vars>>

Next ==
  \/ NewSlide
  \/ NewTitlepage
  \/ GetCss
  \/ SlideRawBodyParse
  \/ ToHtml
  \/ TitlepageGet
  \/ TitlepageStr

Spec == Init /\ [][Next]_vars

----------------------------------------------------------------------------
(* Properties of the tokenizer and parser *)

RECURSIVE ConcatTexts(_)
ConcatTexts(tokens) ==
  IF tokens = <<>> THEN <<>> ELSE Head(tokens)[2] \o ConcatTexts(Tail(tokens))

EnvKindsIn(text) ==
  {k \in {"box", "figure", "table", "note"} : \E p \in 1..Len(text) : text[p] = EnvAtom(k)}

\* The columns-level (master) tokens of the body, before any sub-tokenizing.
Master == tokenize("columns", body)

\* Every [index, subtokens] entry discovered for master index i, over the
\* four sub-tokenizers.
SubsAt(i) ==
  SelectSeq(tok.b_tokens \o tok.f_tokens \o tok.t_tokens \o tok.n_tokens,
            LAMBDA e : e[1] = i)

PlaceOf(i) == IF SubsAt(i) = <<>> THEN <<Master[i]>>
              ELSE Flatten([s \in 1..Len(SubsAt(i)) |-> SubsAt(i)[s][2]])

\* C1: raw_body_tokenize returns the tokens in source order: master token i
\* stays at its place when it was not sub-tokenized, and otherwise its place
\* holds the sub-tokens discovered inside it, in their order, exactly once.
C1_TokenOrder ==
  tok_op # "new" =>
    /\ tok.tokens = Flatten([i \in 1..Len(Master) |-> PlaceOf(i)])
    /\ \A i \in 1..Len(Master) : Len(SubsAt(i)) <= 1

\* Two plain spans around a columns environment, both sub-tokenized, with
\* different sub-token lists.
C1_Witness ==
  /\ tok_op = "raw_body_tokenize"
  /\ Len(Master) = 3
  /\ SubsAt(1) # <<>> /\ SubsAt(3) # <<>>
  /\ SubsAt(1)[1][2] # SubsAt(3)[1][2]
  /\ Master[2][1] = "columns"

ParserOf(kind) ==
  CASE kind = "unknown" -> "md_convert"
    [] kind = "columns" -> "columns.parse"
    [] kind = "box"     -> "box.parse"
    [] kind = "figure"  -> "figure.parse"
    [] kind = "table"   -> "table.parse"
    [] kind = "note"    -> "note.parse"
    [] OTHER            -> "dropped"

\* C2: no content loss: the token texts concatenate to the body, and the
\* parsed body holds one piece per token, from the parser of its kind.
C2_NoContentLoss ==
  /\ tok_op # "new" => ConcatTexts(tok.tokens) = body
  /\ tok_op = "raw_body_parse" =>
       /\ Len(parsed) = 2 * Len(tok.tokens)
       /\ \A i \in 1..Len(tok.tokens) :
            parsed[2 * i] = <<ParserOf(tok.tokens[i][1]), tok.tokens[i][2]>>

\* A parsed body with a columns, a note and a plain token.
C2_Witness ==
  /\ tok_op = "raw_body_parse"
  /\ \E i, j, k \in 1..Len(tok.tokens) :
       /\ tok.tokens[i][1] = "note"
       /\ tok.tokens[j][1] = "columns"
       /\ tok.tokens[k][1] = "unknown"

\* Number of atoms before token j of a token list.
Offset(tokens, j) == Len(ConcatTexts(SubSeq(tokens, 1, j - 1)))

\* The master token that holds body position p.
MasterOf(p) ==
  CHOOSE i \in 1..Len(Master) :
    Offset(Master, i) < p /\ p <= Offset(Master, i) + Len(Master[i][2])

\* C3: a plain span that holds environments of two different kinds leaves no
\* environment inside a plain token of the final list.
C3_AllKindsRescanned ==
  tok_op # "new" =>
    \A j \in 1..Len(tok.tokens) :
      (tok.tokens[j][1] = "unknown" /\ EnvKindsIn(tok.tokens[j][2]) # {}) =>
        Cardinality(EnvKindsIn(Master[MasterOf(Offset(tok.tokens, j) + 1)][2])) < 2

\* C4: a body that is exactly one box (figure, table, note) environment is a
\* single token of that kind, handed to that kind's parser.
C4_SingleEnvironment ==
  \A k \in {"box", "figure", "table", "note"} :
    (tok_op = "raw_body_parse" /\ body = <<EnvAtom(k)>>) =>
      /\ tok.tokens = << <<k, body>> >>
      /\ parsed = <<"\n", <<ParserOf(k), body>>>>

----------------------------------------------------------------------------
(* Properties of slides and title pages *)

\* The N of a slide's HTML id, 'slide-N'.
HtmlIdNumber(self) == Tail(put_attributes(self)[1].value)

\* C7: get_css is empty without an override theme; with one, each rule of the
\* override theme comes once, in order, as '\n#slide-N ' followed by the rule
\* without its leading newline: selector class and declarations unchanged.
C7_ScopedCss ==
  ret.op = "get_css" =>
    LET self  == slides[ret.idx]
        rules == SlideTheme_get_css(self.overtheme.slide, ret.arg = <<"True">>)
    IN IF ~self.overtheme.set THEN ret.value = <<>>
       ELSE /\ \A r \in 1..Len(rules) : rules[r][1] = "\n"
            /\ ret.value =
                 Flatten([r \in 1..Len(rules) |->
                   <<"\n#slide-">> \o HtmlIdNumber(self) \o <<" ">>
                     \o SubSeq(rules[r], 2, Len(rules[r]))])

\* The second object of the deck has an override theme with several rules
\* and was asked for its customized css only.
C7_Witness ==
  /\ ret.op = "get_css" /\ ret.idx = 2 /\ ret.arg = <<"True">>
  /\ slides[2].overtheme.set
  /\ Len(SlideTheme_get_css(slides[2].overtheme.slide, TRUE)) >= 3
  /\ ~slides[1].overtheme.set

\* C8: the k-th constructed object has number k, the counter equals the
\* number of objects, numbers are pairwise distinct, and no step changes the
\* number or the title of an object.
C8_Numbering ==
  /\ [](/\ slides_number = Len(slides)
        /\ \A k \in 1..Len(slides) : slides[k].number = k
        /\ \A j, k \in 1..Len(slides) : j # k => slides[j].number # slides[k].number)
  /\ [][\A k \in 1..Len(slides) :
          /\ slides'[k].number = slides[k].number
          /\ slides'[k].title = slides[k].title]_vars

\* A title page and then a slide were constructed, and the title page has
\* since taken its body from a source.
C8_Witness ==
  /\ Len(slides) >= 2
  /\ slides[1].cls = "Titlepage" /\ slides[2].cls = "Slide"
  /\ ret.op = "get" /\ slides[1].found

IsDecimalOf(s, n) ==
  /\ Len(s) >= 1
  /\ \A p \in 1..Len(s) : \E d \in 0..9 : s[p] = Digits[d + 1]
  /\ Len(s) > 1 => s[1] # "0"
  /\ py_int(s) = n

OtherEntries(d) ==
  SelectSeq(d, LAMBDA item : item[1] \notin {"slidetitle", "slidenumber"})

\* C9: every object's metadata has slidetitle = its title and slidenumber =
\* the decimal string of its number, each key once; the caller's other
\* entries are kept in order and the caller's map is as it was.
C9_Metadata ==
  \A k \in 1..Len(slides) :
    LET d == slides[k].data IN
    /\ Cardinality({i \in 1..Len(d) : d[i][1] = "slidetitle"}) = 1
    /\ od_get(d, "slidetitle") = slides[k].title
    /\ slides[k].title = args[k].title
    /\ Cardinality({i \in 1..Len(d) : d[i][1] = "slidenumber"}) = 1
    /\ IsDecimalOf(od_get(d, "slidenumber"), slides[k].number)
    /\ OtherEntries(d) = OtherEntries(args[k].data)
    /\ args[k].data_after = args[k].data

\* Two slides whose callers passed maps that already had a slidenumber and a
\* slidetitle of their own.
C9_Witness ==
  /\ Len(slides) = 2
  /\ od_has(args[1].data, "slidenumber")
  /\ od_get(args[1].data, "slidenumber") # od_get(slides[1].data, "slidenumber")
  /\ od_has(args[2].data, "slidetitle")
  /\ od_get(args[2].data, "slidetitle") # slides[2].title

Rank(kind) ==
  CASE kind = "header"   -> 1
    [] kind = "sidebarL" -> 2
    [] kind = "content"  -> 3
    [] kind = "sidebarR" -> 4
    [] kind = "footer"   -> 5
    [] OTHER             -> 0

CountKind(frags, kind) == Cardinality({i \in 1..Len(frags) : frags[i].kind = kind})

CountSide(ss, side) == Cardinality({i \in 1..Len(ss) : ss[i].position = side})

\* C10: the document of a non-overview slide holds all headers, then the left
\* sidebars, then the content once, then the right sidebars, then all
\* footers, of the override theme if the slide has one and of the deck's
\* theme otherwise.
C10_FragmentOrder ==
  (ret.op = "to_html" /\ slides[ret.idx].title # Overview) =>
    LET self   == slides[ret.idx]
        actual == IF self.overtheme.set THEN self.overtheme.slide ELSE GlobalTheme.slide
        frags  == SelectSeq(ret.value, LAMBDA f : f.kind # "attr")
    IN /\ \A i, j \in 1..Len(frags) : i < j => Rank(frags[i].kind) <= Rank(frags[j].kind)
       /\ \A i \in 1..Len(frags) : Rank(frags[i].kind) >= 1
       /\ CountKind(frags, "content") = 1
       /\ CountKind(frags, "header") = Len(actual.headers)
       /\ CountKind(frags, "footer") = Len(actual.footers)
       /\ CountKind(frags, "sidebarL") = CountSide(actual.sidebars, "L")
       /\ CountKind(frags, "sidebarR") = CountSide(actual.sidebars, "R")

\* Slide number 2, with an override theme that has headers, a footer and
\* sidebars on both sides, has been rendered.
C10_Witness ==
  /\ ret.op = "to_html" /\ ret.idx = 2
  /\ slides[2].title # Overview
  /\ slides[2].overtheme.set
  /\ CountSide(slides[2].overtheme.slide.sidebars, "L") >= 1
  /\ CountSide(slides[2].overtheme.slide.sidebars, "R") >= 2
  /\ Len(slides[2].overtheme.slide.headers) >= 2

AttrValues(doc, name) ==
  SelectSeq(doc, LAMBDA f : f.kind = "attr" /\ f.name = name)

\* C11: the document of a slide titled '$overview' has class 'step overview',
\* data-x, data-y and data-z all '0', data-scale equal to the scale of the
\* running position as the call leaves it, no data-rotate attribute and no
\* header, sidebar, content or footer fragment, wherever the running
\* position is.
C11_OverviewSlide ==
  (ret.op = "to_html" /\ slides[ret.idx].title = Overview) =>
    /\ AttrValues(ret.value, "class") = <<Attr("class", <<"step overview">>)>>
    /\ AttrValues(ret.value, "data-x") = <<Attr("data-x", <<"0">>)>>
    /\ AttrValues(ret.value, "data-y") = <<Attr("data-y", <<"0">>)>>
    /\ AttrValues(ret.value, "data-z") = <<Attr("data-z", <<"0">>)>>
    /\ AttrValues(ret.value, "data-scale") = <<Attr("data-scale", py_str(position.scale))>>
    /\ \A i \in 1..Len(ret.value) :
         /\ ret.value[i].kind = "attr"
         /\ ret.value[i].name \notin {"data-rotate-x", "data-rotate-y", "data-rotate-z"}

\* An overview slide has been rendered after another slide under a theme
\* that has sidebars, so the running position is off the origin, turned, and
\* scaled.
C11_Witness ==
  /\ ret.op = "to_html"
  /\ slides[ret.idx].title = Overview
  /\ position.position # <<0, 0, 0>>
  /\ position.rotation # <<0, 0, 0>>
  /\ position.scale > 1

\* Places (from 1) of the begin markers of a source, and of the end markers
\* after place p.
BeginPlaces(source) == {p \in 1..Len(source) : source[p] \in BeginAtoms}

EndPlacesAfter(source, p) == {q \in (p + 1)..Len(source) : source[q] = EndAtom}

Least(S) == CHOOSE x \in S : \A y \in S : x <= y

\* C12: every call of Titlepage.get on a source with a begin marker, a body
\* and an end marker returns the text before the begin marker followed by the
\* text after the end marker, makes the body the raw body and sets found; on a
\* source with no begin marker it returns the source as it is, leaves found
\* as it was and, when found was false, leaves the string of the titlepage
\* empty.
C12_GetRemovesTitlepage ==
  [][ret'.op = "get" =>
       LET source == ret'.arg
           before == slides[ret'.idx]
           after  == slides'[ret'.idx]
       IN IF BeginPlaces(source) = {}
          THEN /\ ret'.value = source
               /\ after.found = before.found
               /\ ~before.found => Titlepage_str(after) = <<>>
          ELSE LET p == Least(BeginPlaces(source)) IN
               EndPlacesAfter(source, p) # {} =>
                 LET q == Least(EndPlacesAfter(source, p)) IN
                 /\ ret'.value = SubSeq(source, 1, p - 1) \o SubSeq(source, q + 1, Len(source))
                 /\ after.raw_body = SubSeq(source, p + 1, q - 1)
                 /\ after.found]_vars

\* C13: every titlepage with plain = true and found = true has an override
\* theme, and every property of that theme is marked custom, whether plain
\* came from the constructor or from the marker.
C13_PlainHasOvertheme ==
  \A k \in 1..Len(slides) :
    (slides[k].cls = "Titlepage" /\ slides[k].plain /\ slides[k].found) =>
      /\ slides[k].overtheme.set
      /\ slides[k].overtheme.all_custom

\* C14: every call of Slide.to_html, on any slide, advances the running
\* position by exactly one set_position call, made before the place of the
\* slide is written to the document; no other operation moves the position.
\* So k renderings are k advances, in the order of the calls.
C14_OneAdvancePerRender ==
  [][IF ret'.op = "to_html"
     THEN /\ position'.advances = position.advances + 1
          /\ slides[ret'.idx].title # Overview =>
                AttrValues(ret'.value, "data-x")
                  = <<Attr("data-x", py_str(position'.position[1]))>>
     ELSE position' = position]_vars

\* A deck of the title page and the overview, rendered in that order: two
\* advances after the second rendering.
C14_Witness ==
  /\ Len(slides) = 2
  /\ slides[1].cls = "Titlepage"
  /\ slides[2].title = Overview /\ slides[2].number = 2
  /\ ret.op = "to_html" /\ ret.idx = 2
  /\ position.advances = 2

\* C15: after Titlepage.get on a source with a begin marker and no end marker
\* after it, the raw body is everything from the end of the begin marker to
\* the end of the source, and the returned source is the text before the
\* begin marker and nothing else.
C15_UnterminatedTitlepage ==
  (ret.op = "get" /\ BeginPlaces(ret.arg) # {}) =>
    LET p == Least(BeginPlaces(ret.arg)) IN
    EndPlacesAfter(ret.arg, p) = {} =>
      /\ slides[ret.idx].raw_body = SubSeq(ret.arg, p + 1, Len(ret.arg))
      /\ ret.value = SubSeq(ret.arg, 1, p - 1)

====
